---- MODULE Spec2Model ----
(***************************************************************************)
(* penguin-adinfo: the GA analytics tool (row -> UTM parameters and URL)   *)
(* and the Firestore-backed UserDAO.                                       *)
(*                                                                         *)
(* A JavaScript string is modelled as a sequence of one-character strings, *)
(* so that slice(0, -1), concatenation, normalisation and white-space      *)
(* replacement act on characters as they do in the code.                   *)
(***************************************************************************)
EXTENDS Naturals, Sequences, FiniteSets, TLC

VARIABLES
    \* ---- GA (src/unnamed/part_001) ----
    csvLine,                        \* this.csvLine: normalized column -> value
    config,                         \* this.config, as its entries in key order
    validationRules,                \* this.validationRules: normalized column -> rule
    separator,                      \* this.separator
    spaceSeparator,                 \* this.spaceSeparator
    _utms,                           \* this._utms, as its entries in insertion order
    _hasValidationError,             \* this._hasValidationError
    _hasUndefinedParameterError,     \* this._hasUndefinedParameterError
    _validationErrorMessage,         \* this._validationErrorMessage
    _undefinedParameterErroMessage,  \* this._undefinedParameterErroMessage
    url,                            \* this.url
    utmString,                      \* the local utmString of _buildUtms' callback
    utmIdx,                         \* position of Object.keys(config).forEach
    colIdx,                         \* position of config[utm].forEach
    buildedFields,                  \* what the getter buildedFields last returned
    pc,                             \* position in the constructor / afterwards
    \* ---- UserDAO (src/unnamed/part_000) ----
    docs,                           \* the 'tokens' collection: document id -> data
    calls                           \* the DAO calls started so far, each a promise chain

gaVars == <<csvLine, config, validationRules, separator, spaceSeparator, _utms,
            _hasValidationError, _hasUndefinedParameterError,
            _validationErrorMessage, _undefinedParameterErroMessage, url,
            utmString, utmIdx, colIdx, buildedFields, pc>>
daoVars == <<docs, calls>>
vars == <<csvLine, config, validationRules, separator, spaceSeparator, _utms,
          _hasValidationError, _hasUndefinedParameterError,
          _validationErrorMessage, _undefinedParameterErroMessage, url,
          utmString, utmIdx, colIdx, buildedFields, pc, docs, calls>>

(***************************************************************************)
(* Bounds of the model.                                                    *)
(***************************************************************************)
\* The longest list of source columns one parameter of config has.
MaxColumns == 2
\* The number of UserDAO calls started in one behaviour.
MaxCalls == 2

(***************************************************************************)
(* String literals of the code.                                            *)
(***************************************************************************)
ValidationPrefix ==
    <<"P", "a", "r", "â", "m", "e", "t", "r", "o", "s", " ",
      "i", "n", "c", "o", "r", "r", "e", "t", "o", "s", ":">>
UndefinedPrefix ==
    <<"P", "a", "r", "â", "m", "e", "t", "r", "o", "s", " ", "n", "ã", "o", " ",
      "e", "n", "c", "o", "n", "t", "r", "a", "d", "o", "s", ":">>
CorrectionSentinel ==
    <<"C", "o", "r", "r", "i", "j", "a", " ", "o", "s", " ",
      "p", "a", "r", "â", "m", "e", "t", "r", "o", "s", " ",
      "p", "a", "r", "a", " ", "g", "e", "r", "a", "r", " ", "a", " ", "U", "R", "L">>
MessageJoiner == <<" ", "-", " ">>
UrlKey == <<"u", "r", "l">>

(***************************************************************************)
(* The inputs the constructor is given.                                    *)
(***************************************************************************)
UtmSource == <<"u", "t", "m", "_", "s", "o", "u", "r", "c", "e">>
UtmMedium == <<"u", "t", "m", "_", "m", "e", "d", "i", "u", "m">>
ParameterNames == {UtmSource, UtmMedium}

\* Column names as written in config (display names) ...
ColSource == <<"S", "o", "u", "r", "c", "e">>
ColMedium == <<"M", "é", "d", "i", "u", "m">>
DisplayColumns == {ColSource, ColMedium}
\* ... and the normalized names the row and the rules are keyed by.
KeySource == <<"s", "o", "u", "r", "c", "e">>
KeyMedium == <<"m", "e", "d", "i", "u", "m">>
RowKeys == {KeySource, KeyMedium}

ValGoogle == <<"g", "o", "o", "g", "l", "e">>
ValCpc == <<"c", "p", "c">>
ValPaidAds == <<"P", "a", "i", "d", " ", "A", "d", "s">>
\* A column of the row is absent, or holds one of these (the empty string included).
CellValues == {<< >>, ValGoogle, ValCpc, ValPaidAds}
UrlValues == {<<"h", "t", "t", "p", ":", "/", "/", "x", ".", "c", "o", "m">>}
\* A rule is the list of the values it accepts.
RuleValues == {<<ValGoogle, ValCpc>>}
Separators == {<<"_">>}
SpaceSeparators == {<<"-">>}

\* JavaScript's undefined, apart from every string of characters.
Undefined == <<"undefined">>

\* The non-empty lists of source columns, MaxColumns long at most.
ColumnLists == UNION {[1..n -> DisplayColumns] : n \in 1..MaxColumns}
\* Object.keys(config): the parameter names, each once, in any order.
KeyOrders ==
    {<<p>> : p \in ParameterNames}
        \cup {k \in ParameterNames \X ParameterNames : k[1] # k[2]}
Configs ==
    UNION {{[i \in 1..Len(k) |-> [utm |-> k[i], columns |-> cl[i]]] :
                cl \in [1..Len(k) -> ColumnLists]} : k \in KeyOrders}
\* A row: a url, and a value for some of the normalized columns.
CsvLines ==
    UNION {{[k \in ks \cup {UrlKey} |-> IF k = UrlKey THEN u ELSE cells[k]] :
                u \in UrlValues, cells \in [ks -> CellValues]} : ks \in SUBSET RowKeys}
ValidationRuleSets == UNION {[ks -> RuleValues] : ks \in SUBSET RowKeys}

(***************************************************************************)
(* Strings.                                                                *)
(***************************************************************************)
\* String.prototype.slice(0, -1)
SliceLast(s) == IF Len(s) = 0 THEN s ELSE SubSeq(s, 1, Len(s) - 1)

\* One character lower-cased, decomposed (NFD) and stripped of its diacritic.
NormalizeChar(c) ==
    CASE c = "S" -> "s"
      [] c = "M" -> "m"
      [] c = "P" -> "p"
      [] c = "A" -> "a"
      [] c = "é" -> "e"
      [] OTHER -> c

\* StringUtils.normalize
normalize(s) == [i \in 1..Len(s) |-> NormalizeChar(s[i])]

\* StringUtils.replaceWhiteSpace
RECURSIVE replaceWhiteSpace(_, _)
replaceWhiteSpace(s, replacer) ==
    IF s = << >> THEN << >>
    ELSE (IF Head(s) = " " THEN replacer ELSE <<Head(s)>>)
             \o replaceWhiteSpace(Tail(s), replacer)

\* StringUtils.validateString: the value is one of those the rule accepts.
validateString(str, rule) == \E i \in DOMAIN rule : rule[i] = str

\* AnalyticsTool._isEmpty applied to csvLine[column]: absent, or the empty string.
_isEmpty(column) == column \notin DOMAIN csvLine \/ csvLine[column] = << >>

(***************************************************************************)
(* GA                                                                      *)
(***************************************************************************)
ConfigKeys == {config[i].utm : i \in DOMAIN config}

\* Variant of _hasErrorAtUtm: the validation flag is not consulted.
_hasErrorAtUtm_UndefinedOnly(utm) == _hasUndefinedParameterError[utm]

_hasErrorAtUtm(utm) ==
    _hasUndefinedParameterError[utm] \/ _hasValidationError[utm]

\* Variant of _errorMessageAtUtm: the messages keep their trailing comma.
_errorMessageAtUtm_NoSlice(utm) ==
    LET undef == IF _hasUndefinedParameterError[utm]
                 THEN <<_undefinedParameterErroMessage[utm]>> ELSE << >>
        valid == IF _hasValidationError[utm]
                 THEN <<_validationErrorMessage[utm]>> ELSE << >>
        errorMessages == undef \o valid
    IN  IF Len(errorMessages) = 0 THEN << >>
        ELSE IF Len(errorMessages) = 1 THEN errorMessages[1]
        ELSE errorMessages[1] \o MessageJoiner \o errorMessages[2]

_errorMessageAtUtm(utm) ==
    LET undef == IF _hasUndefinedParameterError[utm]
                 THEN <<SliceLast(_undefinedParameterErroMessage[utm])>> ELSE << >>
        valid == IF _hasValidationError[utm]
                 THEN <<SliceLast(_validationErrorMessage[utm])>> ELSE << >>
        errorMessages == undef \o valid
    IN  IF Len(errorMessages) = 0 THEN << >>
        ELSE IF Len(errorMessages) = 1 THEN errorMessages[1]
        ELSE errorMessages[1] \o MessageJoiner \o errorMessages[2]

\* Variant of _hasAnyErrorAtUtms: hasError is assigned at every parameter, so the
\* last one decides.
_hasAnyErrorAtUtms_LastOnly ==
    Len(_utms) > 0 /\ _hasErrorAtUtm(_utms[Len(_utms)].utm)

_hasAnyErrorAtUtms == \E i \in DOMAIN _utms : _hasErrorAtUtm(_utms[i].utm)

\* The constructor up to its call of _buildUtms: the per-parameter maps.
Constructor ==
    /\ pc = "new"
    /\ _hasValidationError' = [utm \in ConfigKeys |-> FALSE]
    /\ _hasUndefinedParameterError' = [utm \in ConfigKeys |-> FALSE]
    /\ _validationErrorMessage' = [utm \in ConfigKeys |-> ValidationPrefix]
    /\ _undefinedParameterErroMessage' = [utm \in ConfigKeys |-> UndefinedPrefix]
    /\ utmIdx' = 1
    /\ colIdx' = 1
    /\ utmString' = << >>
    /\ pc' = "buildUtms"
    /\ UNCHANGED <<csvLine, config, validationRules, separator, spaceSeparator,
                   _utms, url, buildedFields, docs, calls>>

\* The value JavaScript reads at csvLine[column]: undefined when absent.
CellOf(column) == IF column \in DOMAIN csvLine THEN csvLine[column] ELSE Undefined

\* Variant of MissingColumn: the first missing column ends the parameter's columns.
MissingColumn_Abort(utm, column) ==
    /\ _hasUndefinedParameterError' = [_hasUndefinedParameterError EXCEPT ![utm] = TRUE]
    /\ _undefinedParameterErroMessage' =
           [_undefinedParameterErroMessage EXCEPT
                ![utm] = @ \o <<" ">> \o column \o <<",">>]
    /\ colIdx' = Len(config[utmIdx].columns) + 1
    /\ UNCHANGED <<_hasValidationError, _validationErrorMessage, utmString>>

\* The callback on a column whose value is empty: flag, message, return.
MissingColumn(utm, column) ==
    /\ _hasUndefinedParameterError' = [_hasUndefinedParameterError EXCEPT ![utm] = TRUE]
    /\ _undefinedParameterErroMessage' =
           [_undefinedParameterErroMessage EXCEPT
                ![utm] = @ \o <<" ">> \o column \o <<",">>]
    /\ colIdx' = colIdx + 1
    /\ UNCHANGED <<_hasValidationError, _validationErrorMessage, utmString>>

\* Variant of PresentColumn: a value that fails its rule is not appended.
PresentColumn_SkipInvalid(utm, column, columnNormalized) ==
    /\ IF /\ columnNormalized \in DOMAIN validationRules
          /\ ~validateString(csvLine[columnNormalized], validationRules[columnNormalized])
       THEN /\ _hasValidationError' = [_hasValidationError EXCEPT ![utm] = TRUE]
            /\ _validationErrorMessage' =
                   [_validationErrorMessage EXCEPT
                        ![utm] = @ \o <<" ">> \o column \o <<",">>]
            /\ UNCHANGED utmString
       ELSE /\ UNCHANGED <<_hasValidationError, _validationErrorMessage>>
            /\ utmString' = utmString \o csvLine[columnNormalized] \o separator
    /\ colIdx' = colIdx + 1
    /\ UNCHANGED <<_hasUndefinedParameterError, _undefinedParameterErroMessage>>

\* The callback on a column whose value is present: the rule, then the append.
PresentColumn(utm, column, columnNormalized) ==
    /\ IF /\ columnNormalized \in DOMAIN validationRules
          /\ ~validateString(csvLine[columnNormalized], validationRules[columnNormalized])
       THEN /\ _hasValidationError' = [_hasValidationError EXCEPT ![utm] = TRUE]
            /\ _validationErrorMessage' =
                   [_validationErrorMessage EXCEPT
                        ![utm] = @ \o <<" ">> \o column \o <<",">>]
       ELSE UNCHANGED <<_hasValidationError, _validationErrorMessage>>
    /\ utmString' = utmString \o csvLine[columnNormalized] \o separator
    /\ colIdx' = colIdx + 1
    /\ UNCHANGED <<_hasUndefinedParameterError, _undefinedParameterErroMessage>>

\* Variant of BuildColumn: the empty-value branch does not return, so the rule
\* and the append run on the empty or undefined value too.
BuildColumn_NoReturn ==
    /\ pc = "buildUtms"
    /\ utmIdx <= Len(config)
    /\ colIdx <= Len(config[utmIdx].columns)
    /\ LET utm == config[utmIdx].utm
           column == config[utmIdx].columns[colIdx]
           columnNormalized == normalize(column)
           empty == _isEmpty(columnNormalized)
           invalid == /\ columnNormalized \in DOMAIN validationRules
                      /\ ~validateString(CellOf(columnNormalized),
                                         validationRules[columnNormalized])
       IN  /\ _hasUndefinedParameterError' =
                  IF empty THEN [_hasUndefinedParameterError EXCEPT ![utm] = TRUE]
                  ELSE _hasUndefinedParameterError
           /\ _undefinedParameterErroMessage' =
                  IF empty
                  THEN [_undefinedParameterErroMessage EXCEPT
                            ![utm] = @ \o <<" ">> \o column \o <<",">>]
                  ELSE _undefinedParameterErroMessage
           /\ _hasValidationError' =
                  IF invalid THEN [_hasValidationError EXCEPT ![utm] = TRUE]
                  ELSE _hasValidationError
           /\ _validationErrorMessage' =
                  IF invalid
                  THEN [_validationErrorMessage EXCEPT
                            ![utm] = @ \o <<" ">> \o column \o <<",">>]
                  ELSE _validationErrorMessage
           /\ utmString' = utmString \o CellOf(columnNormalized) \o separator
    /\ colIdx' = colIdx + 1
    /\ UNCHANGED <<csvLine, config, validationRules, separator, spaceSeparator,
                   _utms, url, utmIdx, buildedFields, pc, docs, calls>>

\* _buildUtms, one call of the inner forEach's callback: one source column.
BuildColumn ==
    /\ pc = "buildUtms"
    /\ utmIdx <= Len(config)
    /\ colIdx <= Len(config[utmIdx].columns)
    /\ LET utm == config[utmIdx].utm
           column == config[utmIdx].columns[colIdx]
           columnNormalized == normalize(column)
       IN  IF _isEmpty(columnNormalized)
           THEN MissingColumn(utm, column)
           ELSE PresentColumn(utm, column, columnNormalized)
    /\ UNCHANGED <<csvLine, config, validationRules, separator, spaceSeparator,
                   _utms, url, utmIdx, buildedFields, pc, docs, calls>>

\* Variant of FinishUtm: utmString is not started afresh for the next parameter.
FinishUtm_SharedAccumulator ==
    /\ pc = "buildUtms"
    /\ utmIdx <= Len(config)
    /\ colIdx > Len(config[utmIdx].columns)
    /\ _utms' = Append(_utms,
                       [utm |-> config[utmIdx].utm,
                        value |-> replaceWhiteSpace(SliceLast(normalize(utmString)),
                                                    spaceSeparator)])
    /\ utmIdx' = utmIdx + 1
    /\ colIdx' = 1
    /\ utmString' = utmString
    /\ pc' = IF utmIdx = Len(config) THEN "buildUrl" ELSE "buildUtms"
    /\ UNCHANGED <<csvLine, config, validationRules, separator, spaceSeparator,
                   _hasValidationError, _hasUndefinedParameterError,
                   _validationErrorMessage, _undefinedParameterErroMessage,
                   url, buildedFields, docs, calls>>

\* _buildUtms, the end of the outer forEach's callback: the parameter's value.
FinishUtm ==
    /\ pc = "buildUtms"
    /\ utmIdx <= Len(config)
    /\ colIdx > Len(config[utmIdx].columns)
    /\ _utms' = Append(_utms,
                       [utm |-> config[utmIdx].utm,
                        value |-> replaceWhiteSpace(SliceLast(normalize(utmString)),
                                                    spaceSeparator)])
    /\ utmIdx' = utmIdx + 1
    /\ colIdx' = 1
    /\ utmString' = << >>
    /\ pc' = IF utmIdx = Len(config) THEN "buildUrl" ELSE "buildUtms"
    /\ UNCHANGED <<csvLine, config, validationRules, separator, spaceSeparator,
                   _hasValidationError, _hasUndefinedParameterError,
                   _validationErrorMessage, _undefinedParameterErroMessage,
                   url, buildedFields, docs, calls>>

\* The utmString of _buildUrl after its forEach over the first n entries of _utms.
RECURSIVE UrlPairs(_)
UrlPairs(n) ==
    IF n = 0 THEN << >>
    ELSE UrlPairs(n - 1) \o _utms[n].utm \o <<"=">> \o _utms[n].value \o <<"&">>

\* Variant of _buildUrl: the trailing & is kept.
_buildUrl_TrailingAmp ==
    /\ pc = "buildUrl"
    /\ url' = csvLine[UrlKey] \o <<"?">> \o UrlPairs(Len(_utms))
    /\ pc' = "done"
    /\ UNCHANGED <<csvLine, config, validationRules, separator, spaceSeparator,
                   _utms, _hasValidationError, _hasUndefinedParameterError,
                   _validationErrorMessage, _undefinedParameterErroMessage,
                   utmString, utmIdx, colIdx, buildedFields, docs, calls>>

_buildUrl ==
    /\ pc = "buildUrl"
    /\ url' = csvLine[UrlKey] \o <<"?">> \o SliceLast(UrlPairs(Len(_utms)))
    /\ pc' = "done"
    /\ UNCHANGED <<csvLine, config, validationRules, separator, spaceSeparator,
                   _utms, _hasValidationError, _hasUndefinedParameterError,
                   _validationErrorMessage, _undefinedParameterErroMessage,
                   utmString, utmIdx, colIdx, buildedFields, docs, calls>>

\* get buildedFields, on the constructed object.
GetBuildedFields ==
    /\ pc \in {"done", "read"}
    /\ buildedFields' =
           [utms |-> [i \in DOMAIN _utms |->
                          [utm |-> _utms[i].utm,
                           value |-> IF _hasErrorAtUtm(_utms[i].utm)
                                     THEN _errorMessageAtUtm(_utms[i].utm)
                                     ELSE _utms[i].value]],
            urlga |-> IF _hasAnyErrorAtUtms THEN CorrectionSentinel ELSE url]
    /\ pc' = "read"
    /\ UNCHANGED <<csvLine, config, validationRules, separator, spaceSeparator,
                   _utms, _hasValidationError, _hasUndefinedParameterError,
                   _validationErrorMessage, _undefinedParameterErroMessage, url,
                   utmString, utmIdx, colIdx, docs, calls>>

\* new GA(csvLine, config, separators, validationRules) is entered.
Init ==
    /\ csvLine \in CsvLines
    /\ config \in Configs
    /\ validationRules \in ValidationRuleSets
    /\ separator \in Separators
    /\ spaceSeparator \in SpaceSeparators
    /\ _utms = << >>
    /\ _hasValidationError = << >>
    /\ _hasUndefinedParameterError = << >>
    /\ _validationErrorMessage = << >>
    /\ _undefinedParameterErroMessage = << >>
    /\ url = Undefined
    /\ utmString = << >>
    /\ utmIdx = 0
    /\ colIdx = 0
    /\ buildedFields = [utms |-> << >>, urlga |-> Undefined]
    /\ pc = "new"
    /\ docs = << >>
    /\ calls = << >>

Next ==
    \/ Constructor
    \/ BuildColumn
    \/ FinishUtm
    \/ _buildUrl
    \/ GetBuildedFields

Spec == Init /\ [][Next]_vars

(***************************************************************************)
(* What the claims speak of, stated from the inputs alone.                 *)
(***************************************************************************)
\* The column's value is empty or absent in the row.
Missing(column) ==
    LET k == normalize(column) IN k \notin DOMAIN csvLine \/ csvLine[k] = << >>

\* The column's value is present, a rule exists for it, and the value fails it.
FailsRule(column) ==
    LET k == normalize(column)
    IN  /\ ~Missing(column)
        /\ k \in DOMAIN validationRules
        /\ \A r \in DOMAIN validationRules[k] : validationRules[k][r] # csvLine[k]

AllColumnsClean ==
    \A i \in DOMAIN config : \A j \in DOMAIN config[i].columns :
        ~Missing(config[i].columns[j]) /\ ~FailsRule(config[i].columns[j])

\* a occurs in b / a starts b
IsSubstring(a, b) ==
    \E k \in 0..Len(b) : k + Len(a) <= Len(b) /\ SubSeq(b, k + 1, k + Len(a)) = a
IsPrefix(a, b) == Len(a) <= Len(b) /\ SubSeq(b, 1, Len(a)) = a

\* The values of the first n columns, joined by the separator (none trailing).
RECURSIVE JoinedValues(_, _)
JoinedValues(columns, n) ==
    IF n = 1 THEN csvLine[normalize(columns[1])]
    ELSE JoinedValues(columns, n - 1) \o separator \o csvLine[normalize(columns[n])]

\* The first n "p=value" pairs of pairs (a sequence of [utm, value]), joined by "&".
RECURSIVE JoinedPairs(_, _)
JoinedPairs(pairs, n) ==
    IF n = 0 THEN << >>
    ELSE IF n = 1 THEN pairs[1].utm \o <<"=">> \o pairs[1].value
    ELSE JoinedPairs(pairs, n - 1) \o <<"&">> \o pairs[n].utm \o <<"=">> \o pairs[n].value

\* " name," for each of the first n columns that satisfies Bad, in config order.
RECURSIVE NamesWhere(_, _, _)
NamesWhere(Bad(_), columns, n) ==
    IF n = 0 THEN << >>
    ELSE NamesWhere(Bad, columns, n - 1)
             \o (IF Bad(columns[n]) THEN <<" ">> \o columns[n] \o <<",">> ELSE << >>)

Read == pc = "read"
ReadUtm(i) == buildedFields.utms[i].value
UrlGa == buildedFields.urlga

\* C1 as stated: with every configured column present and passing its rule, each
\* utms[p] is the values of p's columns joined by the separator, white space
\* replaced (no other change), and 'url ga' is row.url ? the p=value pairs joined by &.
C1_AsStated ==
    (Read /\ AllColumnsClean) =>
        LET expected == [i \in DOMAIN config |->
                [utm |-> config[i].utm,
                 value |-> replaceWhiteSpace(
                     JoinedValues(config[i].columns, Len(config[i].columns)),
                     spaceSeparator)]]
        IN  /\ buildedFields.utms = expected
            /\ UrlGa = csvLine[UrlKey] \o <<"?">> \o JoinedPairs(expected, Len(expected))

\* C1 amended: with every configured column present and passing its rule, each
\* utms[p] is the values of p's columns joined by the separator, then normalized
\* (lower-cased, diacritics stripped), with white space replaced; 'url ga' is
\* row.url ? the p=value pairs of these values in config key order, joined by &.
C1_ComposedValues ==
    (Read /\ AllColumnsClean) =>
        LET expected == [i \in DOMAIN config |->
                [utm |-> config[i].utm,
                 value |-> replaceWhiteSpace(
                     normalize(JoinedValues(config[i].columns, Len(config[i].columns))),
                     spaceSeparator)]]
        IN  /\ buildedFields.utms = expected
            /\ UrlGa = csvLine[UrlKey] \o <<"?">> \o JoinedPairs(expected, Len(expected))

\* The scenario of the specification has been built and read, and
\* 'url ga' is http://x.com?utm_source=google&utm_medium=cpc
C1_Scenario ==
    /\ Read
    /\ config = <<[utm |-> UtmSource, columns |-> <<ColSource>>],
                  [utm |-> UtmMedium, columns |-> <<ColMedium>>]>>
    /\ validationRules = << >>
    /\ UrlGa = <<"h", "t", "t", "p", ":", "/", "/", "x", ".", "c", "o", "m", "?">>
                 \o UtmSource \o <<"=">> \o ValGoogle \o <<"&">>
                 \o UtmMedium \o <<"=">> \o ValCpc

\* C1's case: every column is clean, and a parameter of two columns, the second
\* holding capitals and white space, has been built and read.
C1_Witness ==
    /\ Read /\ AllColumnsClean
    /\ \E i \in DOMAIN config :
          /\ Len(config[i].columns) = 2
          /\ csvLine[normalize(config[i].columns[2])] = ValPaidAds

(***************************************************************************)
(* What one parameter's columns yield on their own: its flags, messages    *)
(* and raw value as functions of its column list, the row and the rules.   *)
(***************************************************************************)
HasMissing(columns) == \E j \in DOMAIN columns : Missing(columns[j])
HasFailing(columns) == \E j \in DOMAIN columns : FailsRule(columns[j])

\* The text of the first n columns that are present, each followed by the separator.
RECURSIVE PresentText(_, _)
PresentText(columns, n) ==
    IF n = 0 THEN << >>
    ELSE PresentText(columns, n - 1)
             \o (IF Missing(columns[n]) THEN << >>
                 ELSE csvLine[normalize(columns[n])] \o separator)

\* The text of the first n columns that are present and pass their rule.
RECURSIVE PassingText(_, _)
PassingText(columns, n) ==
    IF n = 0 THEN << >>
    ELSE PassingText(columns, n - 1)
             \o (IF Missing(columns[n]) \/ FailsRule(columns[n]) THEN << >>
                 ELSE csvLine[normalize(columns[n])] \o separator)

UndefinedText(columns) == UndefinedPrefix \o NamesWhere(Missing, columns, Len(columns))
ValidationText(columns) == ValidationPrefix \o NamesWhere(FailsRule, columns, Len(columns))
RawValue(columns) ==
    replaceWhiteSpace(SliceLast(normalize(PresentText(columns, Len(columns)))),
                      spaceSeparator)

FlaggedAt(utm) == _hasUndefinedParameterError[utm] \/ _hasValidationError[utm]
SomeFlag == \E utm \in ConfigKeys : FlaggedAt(utm)

\* C2: 'url ga' is the composed URL exactly when no parameter of config has an
\* undefined-parameter or validation error; with any error it is the correction
\* sentinel, in which no parameter's composed p=value pair occurs.
C2_UrlOnlyWithoutErrors ==
    Read =>
        LET composed == csvLine[UrlKey] \o <<"?">> \o JoinedPairs(_utms, Len(_utms))
        IN  /\ (UrlGa = composed) <=> ~SomeFlag
            /\ SomeFlag =>
                  /\ UrlGa = CorrectionSentinel
                  /\ \A i \in DOMAIN _utms :
                        ~IsSubstring(_utms[i].utm \o <<"=">> \o _utms[i].value, UrlGa)

\* C2's case: read with two parameters, exactly one of which has an error.
C2_Witness ==
    /\ Read
    /\ Len(config) = 2
    /\ FlaggedAt(config[1].utm) /\ ~FlaggedAt(config[2].utm)
    /\ UrlGa = CorrectionSentinel

\* C3: a parameter with a missing source column reads as a non-empty error text
\* that names every missing column by its display name, in config order and
\* comma-separated; a later column is still processed (its failed rule is
\* reported too); and 'url ga' is the correction sentinel.
C3_MissingColumnsReported ==
    Read =>
        \A i \in DOMAIN config :
            HasMissing(config[i].columns) =>
                /\ ReadUtm(i) # << >>
                /\ IsPrefix(SliceLast(UndefinedText(config[i].columns)), ReadUtm(i))
                /\ \A j \in DOMAIN config[i].columns :
                      Missing(config[i].columns[j]) =>
                          IsSubstring(config[i].columns[j], ReadUtm(i))
                /\ HasFailing(config[i].columns) =>
                       IsSubstring(SliceLast(ValidationText(config[i].columns)), ReadUtm(i))
                /\ UrlGa = CorrectionSentinel

\* C3's case: a parameter whose first column is missing and whose second is
\* present, beside another parameter that is error-free.
C3_Witness ==
    /\ Read
    /\ \E i, k \in DOMAIN config :
          /\ Len(config[i].columns) = 2
          /\ Missing(config[i].columns[1]) /\ ~Missing(config[i].columns[2])
          /\ ~FlaggedAt(config[k].utm)
          /\ UrlGa = CorrectionSentinel

\* C4: a parameter with a present source column that fails its rule reads as a
\* non-empty error text whose validation message names that column by its
\* display name, and 'url ga' is the correction sentinel.
C4_FailedRuleReported ==
    Read =>
        \A i \in DOMAIN config :
            HasFailing(config[i].columns) =>
                /\ ReadUtm(i) # << >>
                /\ IsSubstring(SliceLast(ValidationText(config[i].columns)), ReadUtm(i))
                /\ \A j \in DOMAIN config[i].columns :
                      FailsRule(config[i].columns[j]) =>
                          IsSubstring(<<" ">> \o config[i].columns[j],
                                      SliceLast(NamesWhere(FailsRule, config[i].columns,
                                                           Len(config[i].columns))))
                /\ UrlGa = CorrectionSentinel

\* C4's case: a parameter none of whose columns is missing and one of whose
\* columns fails its rule, beside another parameter that is error-free.
C4_Witness ==
    /\ Read
    /\ \E i, k \in DOMAIN config :
          /\ ~HasMissing(config[i].columns) /\ HasFailing(config[i].columns)
          /\ ~FlaggedAt(config[k].utm)
          /\ UrlGa = CorrectionSentinel

\* C5: the keys of utms are the keys of config; utms[p] is p's composed value
\* when neither flag of p is set, and otherwise the error text: the
\* undefined-parameter message (if flagged) then the validation message (if
\* flagged), each without its trailing comma, joined by " - " when both are there.
C5_ValueOrErrorText ==
    Read =>
        /\ [i \in DOMAIN buildedFields.utms |-> buildedFields.utms[i].utm]
               = [i \in DOMAIN config |-> config[i].utm]
        /\ \A i \in DOMAIN config :
              LET utm == config[i].utm
                  u == SliceLast(_undefinedParameterErroMessage[utm])
                  v == SliceLast(_validationErrorMessage[utm])
                  text == CASE _hasUndefinedParameterError[utm] /\ _hasValidationError[utm]
                                  -> u \o <<" ", "-", " ">> \o v
                            [] _hasUndefinedParameterError[utm] /\ ~_hasValidationError[utm]
                                  -> u
                            [] ~_hasUndefinedParameterError[utm] /\ _hasValidationError[utm]
                                  -> v
                            [] OTHER -> _utms[i].value
              IN  /\ ReadUtm(i) = text
                  /\ FlaggedAt(utm) =>
                        /\ ReadUtm(i) # _utms[i].value
                        /\ ReadUtm(i)[Len(ReadUtm(i))] # ","
                        /\ ~IsSubstring(<<",", " ", "-">>, ReadUtm(i))
                  /\ ~FlaggedAt(utm) => ~IsPrefix(SliceLast(UndefinedPrefix), ReadUtm(i))

\* C5's case: read with a parameter that holds both errors, its text the two
\* messages joined by " - ", beside a parameter that holds one error only.
C5_Witness ==
    /\ Read
    /\ \E i, k \in DOMAIN config :
          /\ _hasUndefinedParameterError[config[i].utm]
          /\ _hasValidationError[config[i].utm]
          /\ IsSubstring(MessageJoiner, ReadUtm(i))
          /\ _hasUndefinedParameterError[config[k].utm] # _hasValidationError[config[k].utm]

\* C6: every parameter's raw value, flags and messages are those its own column
\* list yields from the row and the rules, whatever the other parameters are and
\* wherever it stands in config's key order (so a permutation of the keys
\* changes none of them); the composed URL lists the pairs in config key order.
C6_ParametersIndependent ==
    pc \in {"done", "read"} =>
        /\ \A i \in DOMAIN config :
              LET utm == config[i].utm
                  columns == config[i].columns
              IN  /\ _utms[i] = [utm |-> utm, value |-> RawValue(columns)]
                  /\ _hasUndefinedParameterError[utm] = HasMissing(columns)
                  /\ _hasValidationError[utm] = HasFailing(columns)
                  /\ _undefinedParameterErroMessage[utm] = UndefinedText(columns)
                  /\ _validationErrorMessage[utm] = ValidationText(columns)
        /\ LET pairs == [i \in DOMAIN config |->
                            [utm |-> config[i].utm, value |-> RawValue(config[i].columns)]]
           IN  url = csvLine[UrlKey] \o <<"?">> \o JoinedPairs(pairs, Len(pairs))

\* C6's case: both key orders of one two-parameter config are built; this is the
\* one that lists utm_medium first, its columns differing from utm_source's.
C6_Witness ==
    /\ pc = "done"
    /\ Len(config) = 2
    /\ config[1].utm = UtmMedium /\ config[2].utm = UtmSource
    /\ config[1].columns # config[2].columns
    /\ _utms[1].value # << >> /\ _utms[2].value # << >>
    /\ _utms[1].value # _utms[2].value

\* The columns of the current parameter that the inner forEach has been through.
Processed == IF pc = "buildUtms" /\ utmIdx <= Len(config) THEN colIdx - 1 ELSE 0

\* C8 as stated: the accumulator holds the value and separator of exactly the
\* columns that are present and pass their rule: a column that is missing or
\* fails its rule contributes no text.
C8_AsStated ==
    (pc = "buildUtms" /\ utmIdx <= Len(config)) =>
        utmString = PassingText(config[utmIdx].columns, Processed)

\* C8 amended: the accumulator holds the value and separator of exactly the
\* columns that are present (not missing); a missing column contributes no text,
\* and a present column that fails its rule contributes its value all the same.
C8_AppendedIffPresent ==
    (pc = "buildUtms" /\ utmIdx <= Len(config)) =>
        utmString = PresentText(config[utmIdx].columns, Processed)

\* C8's case: the column just processed is present and fails its rule, after a
\* missing one.
C8_Witness ==
    /\ pc = "buildUtms" /\ utmIdx <= Len(config)
    /\ Processed = 2
    /\ Missing(config[utmIdx].columns[1])
    /\ FailsRule(config[utmIdx].columns[2])
    /\ utmString # << >>

\* C9: a missing column never sets the validation flag nor enters the validation
\* message, rule or no rule: at every point of the build the validation flag of
\* a parameter is set only if one of its processed columns is present and fails
\* its rule, the validation message names those columns only, and a parameter
\* holds both errors only through two different columns.
C9_MissingNeverFailsValidation ==
    (pc = "buildUtms" /\ utmIdx <= Len(config)) =>
        LET utm == config[utmIdx].utm
            columns == config[utmIdx].columns
        IN  /\ _hasValidationError[utm] =
                   (\E j \in 1..Processed : FailsRule(columns[j]))
            /\ _validationErrorMessage[utm] =
                   ValidationPrefix \o NamesWhere(FailsRule, columns, Processed)
            /\ (_hasValidationError[utm] /\ _hasUndefinedParameterError[utm]) =>
                   \E j, k \in 1..Processed :
                       /\ j # k
                       /\ Missing(columns[j])
                       /\ FailsRule(columns[k])

\* C9's case: a missing column that has a rule has been processed, and a
\* different column of the same parameter failed its rule.
C9_Witness ==
    /\ pc = "buildUtms" /\ utmIdx <= Len(config)
    /\ Processed = 2
    /\ \E j \in 1..2 :
          /\ Missing(config[utmIdx].columns[j])
          /\ normalize(config[utmIdx].columns[j]) \in DOMAIN validationRules
          /\ FailsRule(config[utmIdx].columns[3 - j])
    /\ _hasValidationError[config[utmIdx].utm]
    /\ _hasUndefinedParameterError[config[utmIdx].utm]

(***************************************************************************)
(* UserDAO                                                                 *)
(*                                                                         *)
(* docs is the 'tokens' collection.  A call of a DAO method is a promise   *)
(* chain: the get() it sends is answered at some later step (the snapshot  *)
(* is of the collection at that step), then its handler runs, and a set()  *)
(* the handler sends is applied at a later step again.  Calls interleave   *)
(* at these steps.                                                         *)
(***************************************************************************)
UserIds == {"u1", "u2"}
Emails == {"a@x.com", "b@x.com"}
Passwords == {"p1", "p2"}

\* bcrypt: the hash of a password, and compareSync(password, hash).
Hash(password) == <<"bcrypt", password>>
compareSync(password, hash) == hash = Hash(password)

\* The stored document of a user.
UserDoc(email, password, activate) ==
    [email |-> email, password |-> Hash(password), activate |-> activate]

\* The collections the calls start from: u1 is stored; u2 is not, or is stored
\* under u1's email or under another one.
InitialDocs ==
    {[id \in {"u1"} |-> UserDoc("a@x.com", "p1", TRUE)]}
        \cup {[id \in UserIds |-> IF id = "u1" THEN UserDoc("a@x.com", "p1", TRUE)
                                  ELSE UserDoc(e, "p2", a)] :
                  e \in Emails, a \in BOOLEAN}

\* The User objects changePassword is given.
Users ==
    [id : UserIds, email : {"a@x.com"}, password : {Hash(pw) : pw \in Passwords},
     activate : BOOLEAN]

\* User.toJsonSave: the fields of the user as they are stored.
toJsonSave(user) ==
    [email |-> user.email, password |-> user.password, activate |-> user.activate]

\* documentSnapshot.ref.path, and the match of [^/]+$ in it: its last segment.
PathOf(id) == <<"tokens", id>>
LastSegment(path) == path[Len(path)]

NoSnapshot == [exists |-> FALSE, data |-> << >>]
NoResult == [state |-> "pending", value |-> "undefined"]
Resolved(v) == [state |-> "resolved", value |-> v]
Rejected(message) == [state |-> "rejected", value |-> message]

NewCall(op, arg) ==
    [op |-> op, arg |-> arg, pc |-> "get", snapshot |-> NoSnapshot,
     write |-> << >>, result |-> NoResult]

\* new UserDAO(email, password).getUserId() is called: the query is sent.
StartGetUserId ==
    /\ Len(calls) < MaxCalls
    /\ \E email \in Emails, password \in Passwords :
          calls' = Append(calls, NewCall("getUserId",
                                         [email |-> email, password |-> password]))
    /\ UNCHANGED <<docs, gaVars>>

\* changePassword(user) is called: doc(user.id).get() is sent.
StartChangePassword ==
    /\ Len(calls) < MaxCalls
    /\ \E user \in Users : calls' = Append(calls, NewCall("changePassword", user))
    /\ UNCHANGED <<docs, gaVars>>

\* deactivateUser(userId) is called: doc(userId).get() is sent.
StartDeactivateUser ==
    /\ Len(calls) < MaxCalls
    /\ \E userId \in UserIds : calls' = Append(calls, NewCall("deactivateUser", userId))
    /\ UNCHANGED <<docs, gaVars>>

\* reactivateUser(userId) is called: doc(userId).get() is sent.
StartReactivateUser ==
    /\ Len(calls) < MaxCalls
    /\ \E userId \in UserIds : calls' = Append(calls, NewCall("reactivateUser", userId))
    /\ UNCHANGED <<docs, gaVars>>

\* where('email', '==', this._email).get() is answered: the matching documents.
QueryGet(c) ==
    /\ calls[c].op = "getUserId"
    /\ calls[c].pc = "get"
    /\ LET found == {id \in DOMAIN docs : docs[id].email = calls[c].arg.email}
       IN  calls' = [calls EXCEPT
                ![c].snapshot = [exists |-> found # {},
                                 data |-> [id \in found |-> docs[id]]],
                ![c].pc = "then"]
    /\ UNCHANGED <<docs, gaVars>>

\* doc(id).get() is answered: the document as it is stored now, if it is.
DocGet(c) ==
    /\ calls[c].op \in {"changePassword", "deactivateUser", "reactivateUser"}
    /\ calls[c].pc = "get"
    /\ LET id == IF calls[c].op = "changePassword" THEN calls[c].arg.id ELSE calls[c].arg
       IN  calls' = [calls EXCEPT
                ![c].snapshot = IF id \in DOMAIN docs
                                THEN [exists |-> TRUE, data |-> docs[id]]
                                ELSE NoSnapshot,
                ![c].pc = "then"]
    /\ UNCHANGED <<docs, gaVars>>

\* getUserId's then-handler on the query's snapshot.  With documents found it
\* runs forEach over them: a callback throws on a wrong password, and the
\* value a callback returns (the last path segment) is dropped by forEach,
\* so the handler itself returns nothing.
GetUserIdResult(password, snapshot) ==
    IF ~snapshot.exists THEN Rejected("ID não encontrado!")
    ELSE IF \E id \in DOMAIN snapshot.data :
                ~compareSync(password, snapshot.data[id].password)
    THEN Rejected("Email ou senha incorreto(s)!")
    ELSE Resolved("undefined")

GetUserIdThen(c) ==
    /\ calls[c].op = "getUserId"
    /\ calls[c].pc = "then"
    /\ calls' = [calls EXCEPT
            ![c].result = GetUserIdResult(calls[c].arg.password, calls[c].snapshot),
            ![c].pc = "done"]
    /\ UNCHANGED <<docs, gaVars>>

\* changePassword's first handler: doc.ref.set(user.toJsonSave()) is sent.
ChangePasswordThen(c) ==
    /\ calls[c].op = "changePassword"
    /\ calls[c].pc = "then"
    /\ calls' = [calls EXCEPT ![c].write = toJsonSave(calls[c].arg), ![c].pc = "set"]
    /\ UNCHANGED <<docs, gaVars>>

\* deactivateUser's / reactivateUser's first handler: user = doc.data(), its
\* activate is assigned, doc.ref.set(user) is sent.  doc.data() of a document
\* that is not stored is undefined, and the assignment throws.
ActivationThen(c) ==
    /\ calls[c].op \in {"deactivateUser", "reactivateUser"}
    /\ calls[c].pc = "then"
    /\ calls' =
           IF calls[c].snapshot.exists
           THEN [calls EXCEPT
                    ![c].write = [calls[c].snapshot.data EXCEPT
                                      !.activate = (calls[c].op = "reactivateUser")],
                    ![c].pc = "set"]
           ELSE [calls EXCEPT
                    ![c].result = Rejected("TypeError"),
                    ![c].pc = "done"]
    /\ UNCHANGED <<docs, gaVars>>

\* The set() a handler sent is applied: the document is replaced by the data
\* written, and the chain's last handler resolves the promise with true.
SetApplied(c) ==
    /\ calls[c].pc = "set"
    /\ LET id == IF calls[c].op = "changePassword" THEN calls[c].arg.id ELSE calls[c].arg
       IN  docs' = [d \in DOMAIN docs \cup {id} |->
                        IF d = id THEN calls[c].write ELSE docs[d]]
    /\ calls' = [calls EXCEPT ![c].result = Resolved("true"), ![c].pc = "done"]
    /\ UNCHANGED gaVars

\* No GA object takes part in the DAO's behaviours: its variables stay as one
\* constructor call left unentered.
InitDAO ==
    /\ docs \in InitialDocs
    /\ calls = << >>
    /\ csvLine = [k \in {UrlKey} |-> CHOOSE u \in UrlValues : TRUE]
    /\ config = <<[utm |-> UtmSource, columns |-> <<ColSource>>]>>
    /\ validationRules = << >>
    /\ separator = <<"_">>
    /\ spaceSeparator = <<"-">>
    /\ _utms = << >>
    /\ _hasValidationError = << >>
    /\ _hasUndefinedParameterError = << >>
    /\ _validationErrorMessage = << >>
    /\ _undefinedParameterErroMessage = << >>
    /\ url = Undefined
    /\ utmString = << >>
    /\ utmIdx = 0
    /\ colIdx = 0
    /\ buildedFields = [utms |-> << >>, urlga |-> Undefined]
    /\ pc = "new"

NextDAO ==
    \/ StartGetUserId
    \/ StartChangePassword
    \/ StartDeactivateUser
    \/ StartReactivateUser
    \/ \E c \in DOMAIN calls : QueryGet(c)
    \/ \E c \in DOMAIN calls : DocGet(c)
    \/ \E c \in DOMAIN calls : GetUserIdThen(c)
    \/ \E c \in DOMAIN calls : ChangePasswordThen(c)
    \/ \E c \in DOMAIN calls : ActivationThen(c)
    \/ \E c \in DOMAIN calls : SetApplied(c)

SpecDAO == InitDAO /\ [][NextDAO]_vars

\* C7: getUserId resolves with the user's ID (the last segment of the document
\* path) when the documents found by the email all hold the DAO's password; it
\* rejects when no document has the email, or when the password does not match.
C7_GetUserIdResolvesWithId ==
    \A c \in DOMAIN calls :
        (calls[c].op = "getUserId" /\ calls[c].pc = "done") =>
            LET found == DOMAIN calls[c].snapshot.data
                right == {id \in found :
                             compareSync(calls[c].arg.password,
                                         calls[c].snapshot.data[id].password)}
            IN  /\ (found # {} /\ right = found) =>
                       /\ calls[c].result.state = "resolved"
                       /\ calls[c].result.value \in right
                /\ found = {} => calls[c].result.state = "rejected"
                /\ (found # {} /\ right = {}) => calls[c].result.state = "rejected"

\* C10: once a deactivateUser(id) or reactivateUser(id) and a
\* changePassword(user) on the same id (the user object holding the activate
\* value the (de)activation writes) have both resolved, however their steps
\* interleaved, the stored document holds the password changePassword wrote and
\* the activate value the (de)activation wrote.
C10_NoLostUpdate ==
    \A c, k \in DOMAIN calls :
        (/\ calls[c].op \in {"deactivateUser", "reactivateUser"}
         /\ calls[k].op = "changePassword"
         /\ calls[k].arg.id = calls[c].arg
         /\ calls[k].arg.activate = (calls[c].op = "reactivateUser")
         /\ Len(calls) = 2
         /\ calls[c].result = Resolved("true")
         /\ calls[k].result = Resolved("true"))
        => /\ docs[calls[c].arg].password = calls[k].arg.password
           /\ docs[calls[c].arg].activate = (calls[c].op = "reactivateUser")

====
